---- MODULE Spec2Model ----
(***************************************************************************)
(* Ledger engine of txn-application: the account table and the transaction *)
(* table of State, and the five handlers (Deposit, Withdrawal, Dispute,    *)
(* Resolve, Chargeback) that run() dispatches one record at a time, until  *)
(* the stream of records ends or fails.                                    *)
(*                                                                         *)
(* Amounts are f32 in the source.  The model draws them from integers that *)
(* f32 represents exactly and whose sums stay below 2^24, so every         *)
(* addition and subtraction of the model is the exact f32 result.          *)
(***************************************************************************)
EXTENDS Integers, Sequences, FiniteSets, TLC

\* The clients of the model: a handler tells the client of a record from any
\* other client only (check_client_id_mismatch), so there are two.
ClientIds == {1, 2}

\* Bound of the model: transaction ids are 1..MaxTxId.
MaxTxId == 2

TxIds == 1..MaxTxId

\* The amounts a deposit or withdrawal record may carry (those of the tests of
\* main.rs, with 0 and a negative one).
Amounts == {-50, 0, 50, 100}

VARIABLES
    accounts,       \* State.accounts: ClientId -> ClientAccount
    transactions,   \* State.transactions: TxId -> stored handler (inner, status)
    pc,             \* where run() is: "loop" in the while loop over the stream,
                    \* "done" once it returned Ok(()), "failed" once it returned Err
    stdout,         \* the rows run() has printed, in the order printed
    input,          \* the records of the file parse_csv reads (SpecFile draws
                    \* them; the other specifications draw the stream's items)
    taken           \* the number of records of the stream over input run() has handled

vars == <<accounts, transactions, pc, stdout, input, taken>>

----------------------------------------------------------------------------
\* Option<T>: None is the empty sequence, Some(x) a sequence of one element.
None == <<>>
Some(x) == <<x>>

\* The input record, struct Transaction.
Transaction(tx_type, client_id, tx_id, amount) ==
    [tx_type |-> tx_type, client_id |-> client_id, tx_id |-> tx_id, amount |-> amount]

\* Deposit::new, Withdrawal::new, ...: the handler wraps the record with the
\* default status (TxStatus::default() is Valid).
New(t) == [inner |-> t, status |-> "Valid"]

\* ClientAccount { client_id, ..Default::default() }
DefaultAccount(client_id) ==
    [client_id |-> client_id, available |-> 0, held |-> 0, total |-> 0, locked |-> FALSE]

\* HashMap::insert
Insert(map, k, v) == [x \in (DOMAIN map) \cup {k} |-> IF x = k THEN v ELSE map[x]]

\* Result<(), TransactionError>
Ok == [kind |-> "Ok"]
IsOk(r) == r.kind = "Ok"

MustBePositive(tx_type, id, amount) ==
    [kind |-> "MustBePositive", tx_type |-> tx_type, id |-> id, amount |-> amount]
BalanceInsufficient(available, tx_type, id, amount) ==
    [kind |-> "BalanceInsufficient", available |-> available, tx_type |-> tx_type,
     id |-> id, amount |-> amount]
AccountLocked(id) == [kind |-> "AccountLocked", id |-> id]
NotFound(tx_type, id) == [kind |-> "NotFound", tx_type |-> tx_type, id |-> id]
AccountNotFound(id) == [kind |-> "AccountNotFound", id |-> id]
ClientIdMismatch(expected, actual) ==
    [kind |-> "ClientIdMismatch", expected |-> expected, actual |-> actual]
DuplicateTransaction(id) == [kind |-> "DuplicateTransaction", id |-> id]
MissingAmount(tx_type, id) == [kind |-> "MissingAmount", tx_type |-> tx_type, id |-> id]
IncorrectState(tx_type, state, id) ==
    [kind |-> "IncorrectState", tx_type |-> tx_type, state |-> state, id |-> id]

\* What a handler leaves behind: the two tables and its result.
Return(accs, txs, r) == [accounts |-> accs, transactions |-> txs, res |-> r]

----------------------------------------------------------------------------
\* TransactionExt: the shared checks.

check_positive_strict(self, amount) ==
    IF amount <= 0
    THEN MustBePositive(self.inner.tx_type, self.inner.tx_id, amount)
    ELSE Ok
check_positive(self, amount) ==
    IF amount < 0
    THEN MustBePositive(self.inner.tx_type, self.inner.tx_id, amount)
    ELSE Ok

check_sufficient_balance_none(self, available, amount) == Ok
check_sufficient_balance(self, available, amount) ==
    IF available < amount
    THEN BalanceInsufficient(available, self.inner.tx_type, self.inner.tx_id, amount)
    ELSE Ok

check_client_id_mismatch_none(self, client_id) == Ok
check_client_id_mismatch(self, client_id) ==
    IF client_id # self.inner.client_id
    THEN ClientIdMismatch(client_id, self.inner.client_id)
    ELSE Ok

check_duplicate_none(self, txs) == Ok
check_duplicate_same_client(self, txs) ==
    IF /\ self.inner.tx_id \in DOMAIN txs
       /\ txs[self.inner.tx_id].inner.client_id = self.inner.client_id
    THEN DuplicateTransaction(self.inner.tx_id)
    ELSE Ok
check_duplicate(self, txs) ==
    IF \E t \in DOMAIN txs : t = self.inner.tx_id
    THEN DuplicateTransaction(self.inner.tx_id)
    ELSE Ok

check_locked_none(self, account) == Ok
check_locked_wrong_error(self, account) ==
    IF account.locked THEN AccountNotFound(self.inner.client_id) ELSE Ok
check_locked(self, account) ==
    IF account.locked THEN AccountLocked(self.inner.client_id) ELSE Ok

----------------------------------------------------------------------------
\* Deposit::handle

\* accounts.entry(client_id).or_insert_with(default account)
or_insert_always(accs, client_id) == Insert(accs, client_id, DefaultAccount(client_id))
or_insert_with(accs, client_id) ==
    IF client_id \in DOMAIN accs THEN accs ELSE Insert(accs, client_id, DefaultAccount(client_id))

\* account.available += amount; account.total += amount
\* account.available += amount, and the total forgotten
DepositApplyNoTotal(account, amount) ==
    [account EXCEPT !.available = @ + amount]
DepositApply(account, amount) ==
    [account EXCEPT !.available = @ + amount, !.total = @ + amount]

\* Deposit::handle with a missing amount taken as 0
DepositHandleAmountOrZero(self, accs, txs) ==
    LET dup == check_duplicate(self, txs) IN
    IF ~IsOk(dup) THEN Return(accs, txs, dup) ELSE
    LET amount == IF self.inner.amount = None THEN 0 ELSE self.inner.amount[1]
        pos == check_positive(self, amount) IN
    IF ~IsOk(pos) THEN Return(accs, txs, pos) ELSE
    LET accs1 == or_insert_with(accs, self.inner.client_id)
        account == accs1[self.inner.client_id]
        lck == check_locked(self, account) IN
    IF ~IsOk(lck) THEN Return(accs1, txs, lck) ELSE
    Return(Insert(accs1, self.inner.client_id, DepositApply(account, amount)),
           Insert(txs, self.inner.tx_id, [self EXCEPT !.status = "Valid"]),
           Ok)
DepositHandle(self, accs, txs) ==
    LET dup == check_duplicate(self, txs) IN
    IF ~IsOk(dup) THEN Return(accs, txs, dup) ELSE
    IF self.inner.amount = None
    THEN Return(accs, txs, MissingAmount(self.inner.tx_type, self.inner.tx_id)) ELSE
    LET amount == self.inner.amount[1]
        pos == check_positive(self, amount) IN
    IF ~IsOk(pos) THEN Return(accs, txs, pos) ELSE
    LET accs1 == or_insert_with(accs, self.inner.client_id)
        account == accs1[self.inner.client_id]
        lck == check_locked(self, account) IN
    IF ~IsOk(lck) THEN Return(accs1, txs, lck) ELSE
    Return(Insert(accs1, self.inner.client_id, DepositApply(account, amount)),
           Insert(txs, self.inner.tx_id, [self EXCEPT !.status = "Valid"]),
           Ok)

----------------------------------------------------------------------------
\* Withdrawal::handle

\* account.available -= amount; account.total -= amount
\* account.available -= amount, and the total forgotten
WithdrawalApplyNoTotal(account, amount) ==
    [account EXCEPT !.available = @ - amount]
WithdrawalApply(account, amount) ==
    [account EXCEPT !.available = @ - amount, !.total = @ - amount]

\* state.accounts.get_mut(&self.client_id()): the account if there is one
get_account_or_default(accs, client_id) ==
    IF client_id \in DOMAIN accs THEN Some(accs[client_id]) ELSE Some(DefaultAccount(client_id))
get_account(accs, client_id) ==
    IF client_id \in DOMAIN accs THEN Some(accs[client_id]) ELSE None
\* Withdrawal::handle with the balance checked before the lock
WithdrawalHandleBalanceFirst(self, accs, txs) ==
    LET dup == check_duplicate(self, txs) IN
    IF ~IsOk(dup) THEN Return(accs, txs, dup) ELSE
    IF self.inner.amount = None
    THEN Return(accs, txs, MissingAmount(self.inner.tx_type, self.inner.tx_id)) ELSE
    LET amount == self.inner.amount[1]
        pos == check_positive(self, amount) IN
    IF ~IsOk(pos) THEN Return(accs, txs, pos) ELSE
    LET found == get_account(accs, self.inner.client_id) IN
    IF found = None
    THEN Return(accs, txs, AccountNotFound(self.inner.client_id)) ELSE
    LET account == found[1]
        lck == check_locked(self, account)
        bal == check_sufficient_balance(self, account.available, amount) IN
    IF ~IsOk(bal) THEN Return(accs, txs, bal) ELSE
    IF ~IsOk(lck) THEN Return(accs, txs, lck) ELSE
    Return(Insert(accs, self.inner.client_id, WithdrawalApply(account, amount)),
           Insert(txs, self.inner.tx_id, [self EXCEPT !.status = "Valid"]),
           Ok)
\* Withdrawal::handle with the entry inserted before the balance check
WithdrawalHandleReservesId(self, accs, txs) ==
    LET dup == check_duplicate(self, txs) IN
    IF ~IsOk(dup) THEN Return(accs, txs, dup) ELSE
    IF self.inner.amount = None
    THEN Return(accs, txs, MissingAmount(self.inner.tx_type, self.inner.tx_id)) ELSE
    LET amount == self.inner.amount[1]
        pos == check_positive(self, amount) IN
    IF ~IsOk(pos) THEN Return(accs, txs, pos) ELSE
    LET found == get_account(accs, self.inner.client_id) IN
    IF found = None
    THEN Return(accs, txs, AccountNotFound(self.inner.client_id)) ELSE
    LET account == found[1]
        lck == check_locked(self, account)
        bal == check_sufficient_balance(self, account.available, amount)
        txs1 == Insert(txs, self.inner.tx_id, [self EXCEPT !.status = "Valid"]) IN
    IF ~IsOk(lck) THEN Return(accs, txs, lck) ELSE
    IF ~IsOk(bal) THEN Return(accs, txs1, bal) ELSE
    Return(Insert(accs, self.inner.client_id, WithdrawalApply(account, amount)), txs1, Ok)
WithdrawalHandle(self, accs, txs) ==
    LET dup == check_duplicate(self, txs) IN
    IF ~IsOk(dup) THEN Return(accs, txs, dup) ELSE
    IF self.inner.amount = None
    THEN Return(accs, txs, MissingAmount(self.inner.tx_type, self.inner.tx_id)) ELSE
    LET amount == self.inner.amount[1]
        pos == check_positive(self, amount) IN
    IF ~IsOk(pos) THEN Return(accs, txs, pos) ELSE
    LET found == get_account(accs, self.inner.client_id) IN
    IF found = None
    THEN Return(accs, txs, AccountNotFound(self.inner.client_id)) ELSE
    LET account == found[1]
        lck == check_locked(self, account)
        bal == check_sufficient_balance(self, account.available, amount) IN
    IF ~IsOk(lck) THEN Return(accs, txs, lck) ELSE
    IF ~IsOk(bal) THEN Return(accs, txs, bal) ELSE
    Return(Insert(accs, self.inner.client_id, WithdrawalApply(account, amount)),
           Insert(txs, self.inner.tx_id, [self EXCEPT !.status = "Valid"]),
           Ok)

----------------------------------------------------------------------------
\* Dispute, Resolve and Chargeback look the referenced transaction up:
\* state.transactions.get_mut(&self.tx_id()).filter(|tx| tx.tx_type() == Deposit)
get_any(txs, tx_id) ==
    IF tx_id \in DOMAIN txs THEN Some(txs[tx_id]) ELSE None
get_deposit(txs, tx_id) ==
    IF tx_id \in DOMAIN txs /\ txs[tx_id].inner.tx_type = "Deposit"
    THEN Some(txs[tx_id])
    ELSE None

\* tx.set_status(status) on the entry of the table
set_status(txs, tx_id, status) == [txs EXCEPT ![tx_id].status = status]

----------------------------------------------------------------------------
\* Dispute::handle

\* The status a dispute requires of the referenced deposit.
DisputeStatusNotDisputed(status) == status # "Disputed"
DisputeStatusOk(status) == status = "Valid"

\* .ok_or_else(NotFound).and_then(status check)
DisputeLookup(self, txs) ==
    LET found == get_deposit(txs, self.inner.tx_id) IN
    IF found = None THEN NotFound(self.inner.tx_type, self.inner.tx_id) ELSE
    IF ~DisputeStatusOk(found[1].status)
    THEN IncorrectState(self.inner.tx_type, found[1].status, found[1].inner.tx_id)
    ELSE Ok

\* account.available -= amount; account.held += amount
DisputeApplyNoHold(account, amount) ==
    [account EXCEPT !.available = @ - amount]
DisputeApplyDebitsTotal(account, amount) ==
    [account EXCEPT !.available = @ - amount, !.held = @ + amount, !.total = @ - amount]
DisputeApply(account, amount) ==
    [account EXCEPT !.available = @ - amount, !.held = @ + amount]

DisputeHandle(self, accs, txs) ==
    LET look == DisputeLookup(self, txs) IN
    IF ~IsOk(look) THEN Return(accs, txs, look) ELSE
    LET stored == txs[self.inner.tx_id]
        mis == check_client_id_mismatch(self, stored.inner.client_id) IN
    IF ~IsOk(mis) THEN Return(accs, txs, mis) ELSE
    IF stored.inner.client_id \notin DOMAIN accs
    THEN Return(accs, txs, AccountNotFound(stored.inner.client_id)) ELSE
    LET account == accs[stored.inner.client_id]
        lck == check_locked(self, account) IN
    IF ~IsOk(lck) THEN Return(accs, txs, lck) ELSE
    IF stored.inner.amount = None
    THEN Return(accs, txs, MissingAmount(self.inner.tx_type, self.inner.tx_id)) ELSE
    LET amount == stored.inner.amount[1]
        txs1 == set_status(txs, self.inner.tx_id, "Disputed") IN
    Return(Insert(accs, stored.inner.client_id, DisputeApply(account, amount)), txs1, Ok)

----------------------------------------------------------------------------
\* Resolve::handle

ResolveStatusOk(status) == status = "Disputed"

\* The lookup with the client compared before the status
ResolveLookupMismatchFirst(self, txs) ==
    LET found == get_deposit(txs, self.inner.tx_id) IN
    IF found = None THEN NotFound(self.inner.tx_type, self.inner.tx_id) ELSE
    IF found[1].inner.client_id # self.inner.client_id
    THEN ClientIdMismatch(found[1].inner.client_id, self.inner.client_id) ELSE
    IF ~ResolveStatusOk(found[1].status)
    THEN IncorrectState(self.inner.tx_type, found[1].status, found[1].inner.tx_id)
    ELSE Ok
ResolveLookup(self, txs) ==
    LET found == get_deposit(txs, self.inner.tx_id) IN
    IF found = None THEN NotFound(self.inner.tx_type, self.inner.tx_id) ELSE
    IF ~ResolveStatusOk(found[1].status)
    THEN IncorrectState(self.inner.tx_type, found[1].status, found[1].inner.tx_id)
    ELSE Ok

\* account.held -= amount; account.available += amount
ResolveApplyNoRelease(account, amount) ==
    [account EXCEPT !.held = @ - amount]
ResolveApply(account, amount) ==
    [account EXCEPT !.held = @ - amount, !.available = @ + amount]

\* The status is set (line 456) before check_sufficient_balance (line 458):
\* a rejection by that check leaves the new status in the table.
ResolveHandle(self, accs, txs) ==
    LET look == ResolveLookup(self, txs) IN
    IF ~IsOk(look) THEN Return(accs, txs, look) ELSE
    LET stored == txs[self.inner.tx_id]
        mis == check_client_id_mismatch(self, stored.inner.client_id) IN
    IF ~IsOk(mis) THEN Return(accs, txs, mis) ELSE
    IF stored.inner.client_id \notin DOMAIN accs
    THEN Return(accs, txs, AccountNotFound(stored.inner.client_id)) ELSE
    LET account == accs[stored.inner.client_id]
        lck == check_locked(self, account) IN
    IF ~IsOk(lck) THEN Return(accs, txs, lck) ELSE
    IF stored.inner.amount = None
    THEN Return(accs, txs, MissingAmount(self.inner.tx_type, self.inner.tx_id)) ELSE
    LET amount == stored.inner.amount[1]
        txs1 == set_status(txs, self.inner.tx_id, "Valid")
        bal == check_sufficient_balance(self, account.held, amount) IN
    IF ~IsOk(bal) THEN Return(accs, txs1, bal) ELSE
    Return(Insert(accs, stored.inner.client_id, ResolveApply(account, amount)), txs1, Ok)

----------------------------------------------------------------------------
\* Chargeback::handle

ChargebackStatusAny(status) == TRUE
ChargebackStatusOk(status) == status = "Disputed"

ChargebackLookup(self, txs) ==
    LET found == get_deposit(txs, self.inner.tx_id) IN
    IF found = None THEN NotFound(self.inner.tx_type, self.inner.tx_id) ELSE
    IF ~ChargebackStatusOk(found[1].status)
    THEN IncorrectState(self.inner.tx_type, found[1].status, found[1].inner.tx_id)
    ELSE Ok

\* account.held -= amount; account.total -= amount; account.locked = true
ChargebackApplyNoLock(account, amount) ==
    [account EXCEPT !.held = @ - amount, !.total = @ - amount]
ChargebackApply(account, amount) ==
    [account EXCEPT !.held = @ - amount, !.total = @ - amount, !.locked = TRUE]

\* No check of a negative available
ChargebackArrearsNone(self, account, amount) == Ok
\* if account.available < 0. { return Err(BalanceInsufficient { available:
\* account.available + amount, .. }) }
ChargebackArrearsReportsAvailable(self, account, amount) ==
    IF account.available < 0
    THEN BalanceInsufficient(account.available, self.inner.tx_type, self.inner.tx_id, amount)
    ELSE Ok
ChargebackArrears(self, account, amount) ==
    IF account.available < 0
    THEN BalanceInsufficient(account.available + amount, self.inner.tx_type,
                             self.inner.tx_id, amount)
    ELSE Ok

\* The status is set to Chargeback (line 527) before the two balance checks
\* (lines 531 and 540): a rejection by either leaves the new status in the table.
ChargebackHandle(self, accs, txs) ==
    LET look == ChargebackLookup(self, txs) IN
    IF ~IsOk(look) THEN Return(accs, txs, look) ELSE
    LET stored == txs[self.inner.tx_id]
        mis == check_client_id_mismatch(self, stored.inner.client_id) IN
    IF ~IsOk(mis) THEN Return(accs, txs, mis) ELSE
    IF stored.inner.client_id \notin DOMAIN accs
    THEN Return(accs, txs, AccountNotFound(stored.inner.client_id)) ELSE
    LET account == accs[stored.inner.client_id]
        lck == check_locked(self, account) IN
    IF ~IsOk(lck) THEN Return(accs, txs, lck) ELSE
    IF stored.inner.amount = None
    THEN Return(accs, txs, MissingAmount(self.inner.tx_type, self.inner.tx_id)) ELSE
    LET amount == stored.inner.amount[1]
        txs1 == set_status(txs, self.inner.tx_id, "Chargeback")
        arr == ChargebackArrears(self, account, amount)
        bal == check_sufficient_balance(self, account.held, amount) IN
    IF ~IsOk(arr) THEN Return(accs, txs1, arr) ELSE
    IF ~IsOk(bal) THEN Return(accs, txs1, bal) ELSE
    Return(Insert(accs, stored.inner.client_id, ChargebackApply(account, amount)), txs1, Ok)

----------------------------------------------------------------------------
\* run(): State::default(), then one iteration of the loop per record.

Init ==
    /\ accounts = <<>>
    /\ transactions = <<>>
    /\ pc = "loop"
    /\ stdout = <<>>
    /\ input = <<>>
    /\ taken = 0

\* match tx.tx_type { ... }: the handler of the record's kind, on the state
\* (accs, txs); the result is the state the handler leaves and what it returns.
Dispatch(t, accs, txs) ==
    CASE t.tx_type = "Deposit" -> DepositHandle(New(t), accs, txs)
      [] t.tx_type = "Withdrawal" -> WithdrawalHandle(New(t), accs, txs)
      [] t.tx_type = "Resolve" -> ResolveHandle(New(t), accs, txs)
      [] t.tx_type = "Chargeback" -> ChargebackHandle(New(t), accs, txs)
      [] t.tx_type = "Dispute" -> DisputeHandle(New(t), accs, txs)

\* The amount field of a deposit or withdrawal record: absent, or one of Amounts.
OptAmounts == {None} \cup {Some(a) : a \in Amounts}

\* The records the stream may yield.  Dispute, resolve and chargeback records
\* are drawn without an amount: their handlers never read the record's own.
Records ==
    {Transaction(k, c, id, a) :
        k \in {"Deposit", "Withdrawal"}, c \in ClientIds, id \in TxIds, a \in OptAmounts}
    \cup
    {Transaction(k, c, id, None) :
        k \in {"Dispute", "Resolve", "Chargeback"}, c \in ClientIds, id \in TxIds}

RecordsOf(kind) == {t \in Records : t.tx_type = kind}

\* One iteration of the loop of run() per action: the stream yields a record
\* of the kind, the match arm of that kind builds the handler and calls handle,
\* and the loop goes on whatever the result (a rejection is only printed).

RunDeposit ==
    \E t \in RecordsOf("Deposit") :
        LET out == Dispatch(t, accounts, transactions) IN
        /\ pc = "loop"
        /\ accounts' = out.accounts
        /\ transactions' = out.transactions
        /\ pc' = "loop"
        /\ UNCHANGED <<stdout, input, taken>>

RunWithdrawal ==
    \E t \in RecordsOf("Withdrawal") :
        LET out == Dispatch(t, accounts, transactions) IN
        /\ pc = "loop"
        /\ accounts' = out.accounts
        /\ transactions' = out.transactions
        /\ pc' = "loop"
        /\ UNCHANGED <<stdout, input, taken>>

RunDispute ==
    \E t \in RecordsOf("Dispute") :
        LET out == Dispatch(t, accounts, transactions) IN
        /\ pc = "loop"
        /\ accounts' = out.accounts
        /\ transactions' = out.transactions
        /\ pc' = "loop"
        /\ UNCHANGED <<stdout, input, taken>>

RunResolve ==
    \E t \in RecordsOf("Resolve") :
        LET out == Dispatch(t, accounts, transactions) IN
        /\ pc = "loop"
        /\ accounts' = out.accounts
        /\ transactions' = out.transactions
        /\ pc' = "loop"
        /\ UNCHANGED <<stdout, input, taken>>

RunChargeback ==
    \E t \in RecordsOf("Chargeback") :
        LET out == Dispatch(t, accounts, transactions) IN
        /\ pc = "loop"
        /\ accounts' = out.accounts
        /\ transactions' = out.transactions
        /\ pc' = "loop"
        /\ UNCHANGED <<stdout, input, taken>>

Next ==
    \/ RunDeposit
    \/ RunWithdrawal
    \/ RunDispute
    \/ RunResolve
    \/ RunChargeback

\* The loop of run() on a stream that goes on yielding records.
Spec == Init /\ [][Next]_vars

\* A string is modelled as the sequence of its characters.
Digit(d) == <<"0", "1", "2", "3", "4", "5", "6", "7", "8", "9">>[d + 1]

\* The decimal digits of the natural number n.
RECURSIVE Digits(_)
Digits(n) ==
    IF n < 10 THEN <<Digit(n)>> ELSE Digits(n \div 10) \o <<Digit(n % 10)>>

\* format!("{:.4}", value), for the whole numbers the model's amounts are
Format4(value) ==
    (IF value < 0 THEN <<"-">> ELSE <<>>)
    \o Digits(IF value < 0 THEN -value ELSE value)
    \o <<".", "0", "0", "0", "0">>

\* str::trim_end_matches(ch)
RECURSIVE trim_end_matches(_, _)
trim_end_matches(str, ch) ==
    IF str # <<>> /\ str[Len(str)] = ch
    THEN trim_end_matches(SubSeq(str, 1, Len(str) - 1), ch)
    ELSE str

fmt_decimals(value) ==
    trim_end_matches(trim_end_matches(Format4(value), "0"), ".")

\* println!("{},{},{},{},{}", ...): the row of one account
Row(balance) ==
    [client_id |-> balance.client_id,
     available |-> fmt_decimals(balance.available),
     held |-> fmt_decimals(balance.held),
     total |-> fmt_decimals(balance.total),
     locked |-> balance.locked]

\* state.accounts.into_values(): the accounts in the order the HashMap holds
\* them, which is any order (the hasher is seeded at random).
into_values(accs) ==
    {order \in [1..Cardinality(DOMAIN accs) -> DOMAIN accs] :
        \A i, j \in DOMAIN order : order[i] = order[j] => i = j}

\* stream.next() yields None: the loop ends, run() prints one row per account
\* and returns Ok(()).
StreamEnd ==
    /\ pc = "loop"
    /\ pc' = "done"
    /\ \E order \in into_values(accounts) :
           stdout' = [i \in DOMAIN order |-> Row(accounts[order[i]])]
    /\ UNCHANGED <<accounts, transactions, input, taken>>

\* The stream fails and run() prints the rows all the same.
StreamErrorReports ==
    /\ pc = "loop"
    /\ pc' = "failed"
    /\ \E order \in into_values(accounts) :
           stdout' = [i \in DOMAIN order |-> Row(accounts[order[i]])]
    /\ UNCHANGED <<accounts, transactions, input, taken>>

\* stream.next() yields Some(Err(e)): `transaction?` returns the error from
\* run() at once, before any row is printed.
StreamError ==
    /\ pc = "loop"
    /\ pc' = "failed"
    /\ UNCHANGED <<accounts, transactions, stdout, input, taken>>

\* run() from the first record to its return.
NextRun ==
    \/ Next
    \/ StreamEnd
    \/ StreamError

SpecRun == Init /\ [][NextRun]_vars

\* The run on a stream of deposit and withdrawal records only.
NextDepositWithdrawal ==
    \/ RunDeposit
    \/ RunWithdrawal
    \/ StreamEnd
    \/ StreamError

SpecDepositWithdrawal == Init /\ [][NextDepositWithdrawal]_vars

----------------------------------------------------------------------------
\* csv.rs: parse_csv, the stream of records run() takes its items from.

\* What the reader finds where a record of the file should be: the fields of a
\* record, or a failure of the read.
Raw(fields) == [io |-> FALSE, fields |-> fields]
Unreadable == [io |-> TRUE, fields |-> <<>>]

\* #[serde(rename_all = "lowercase")] enum TxType
TxTypeNames ==
    [name \in {"deposit", "withdrawal", "dispute", "resolve", "chargeback"} |->
        CASE name = "deposit" -> "Deposit"
          [] name = "withdrawal" -> "Withdrawal"
          [] name = "dispute" -> "Dispute"
          [] name = "resolve" -> "Resolve"
          [] name = "chargeback" -> "Chargeback"]

\* A client or transaction id field: the number of the range it is the
\* decimal text of, if any.
parse_id(field, range) ==
    IF \E n \in range : ToString(n) = field
    THEN Some(CHOOSE n \in range : ToString(n) = field)
    ELSE None

\* The text of an amount in the files of the model, e.g. "100.0"
AmountText(a) == ToString(a) \o ".0"

\* An Option<f32> field: empty is None, the text of an amount is that amount.
parse_amount(field) ==
    IF field = "" THEN Some(None) ELSE
    IF \E a \in Amounts : AmountText(a) = field
    THEN Some(Some(CHOOSE a \in Amounts : AmountText(a) = field))
    ELSE None

\* rdr.deserialize(): a row as a Transaction, by position: type, client, tx,
\* amount.  The reader is not flexible: a row must have as many fields as the
\* first record read had (width).  None stands for the csv error.
deserialize(row, width) ==
    IF row.io \/ Len(row.fields) # width \/ Len(row.fields) # 4 THEN None ELSE
    LET client_id == parse_id(row.fields[2], ClientIds)
        tx_id == parse_id(row.fields[3], TxIds)
        amount == parse_amount(row.fields[4]) IN
    IF \/ row.fields[1] \notin DOMAIN TxTypeNames
       \/ client_id = None
       \/ tx_id = None
       \/ amount = None
    THEN None
    ELSE Some(Transaction(TxTypeNames[row.fields[1]], client_id[1], tx_id[1], amount[1]))

\* The items of the stream: Ok(transaction) or Err(parsing error)
StreamOk(t) == [kind |-> "Ok", tx |-> t]
StreamErr(e) == [kind |-> "Err", error |-> e]

\* while let Some(col) = row.next().await { yield col.map_err(Deserialize)? }
RECURSIVE rows(_, _)
rows(rest, width) ==
    IF rest = <<>> THEN <<>> ELSE
    LET col == deserialize(Head(rest), width) IN
    IF col = None
    THEN <<StreamErr("Deserialize")>>
    ELSE <<StreamOk(col[1])>> \o rows(Tail(rest), width)

\* The first record is kept as a header.
parse_csv_keep_header(read) ==
    IF read = <<>> THEN <<StreamErr("NoRecords")>> ELSE
    IF Head(read).io THEN <<StreamErr("ReadRecord")>> ELSE
    rows(read, Len(Head(read).fields))

\* parse_csv: the items the stream yields for the records of the file, up to
\* its end or its first error.  The first record is read with
\* read_byte_record and dropped, whatever it holds.
parse_csv(read) ==
    IF read = <<>> THEN <<StreamErr("NoRecords")>> ELSE
    IF Head(read).io THEN <<StreamErr("ReadRecord")>> ELSE
    rows(Tail(read), Len(Head(read).fields))

\* The last item of the stream is never yielded.
stream_next_but_last(items, n) ==
    IF n + 1 < Len(items) THEN Some(items[n + 1]) ELSE None
\* stream.next().await after n items were taken
stream_next(items, n) ==
    IF n < Len(items) THEN Some(items[n + 1]) ELSE None

----------------------------------------------------------------------------
\* run() on a file.

\* The longest file of the model, in records, header included.
MaxLines == 3

\* The records the files of the model are made of.
FileRecords ==
    {Raw(<<"type", "client", "tx", "amount">>),
     Raw(<<"deposit", "1", "1", "100.0">>),
     Raw(<<"deposit", "2", "2", "50.0">>),
     Raw(<<"withdrawal", "1", "2", "50.0">>),
     Raw(<<"dispute", "1", "1", "">>),
     Raw(<<"chargeback", "1", "1", "">>),
     Raw(<<"deposit", "1">>),
     Unreadable}

Files == UNION {[1..n -> FileRecords] : n \in 0..MaxLines}

InitFile ==
    /\ accounts = <<>>
    /\ transactions = <<>>
    /\ pc = "loop"
    /\ stdout = <<>>
    /\ input \in Files
    /\ taken = 0

\* The stream yields Some(Ok(tx)): one iteration of the loop on tx.
FileRecord ==
    LET item == stream_next(parse_csv(input), taken) IN
    /\ pc = "loop"
    /\ item # None
    /\ item[1].kind = "Ok"
    /\ LET out == Dispatch(item[1].tx, accounts, transactions) IN
       /\ accounts' = out.accounts
       /\ transactions' = out.transactions
    /\ taken' = taken + 1
    /\ pc' = "loop"
    /\ UNCHANGED <<stdout, input>>

\* The stream yields Some(Err(e)).
FileError ==
    LET item == stream_next(parse_csv(input), taken) IN
    /\ item # None
    /\ item[1].kind = "Err"
    /\ StreamError

\* The stream yields None.
FileEnd ==
    /\ stream_next(parse_csv(input), taken) = None
    /\ StreamEnd

NextFile ==
    \/ FileRecord
    \/ FileError
    \/ FileEnd

SpecFile == InitFile /\ [][NextFile]_vars
\* What handling the record t in the current state leaves and returns.
Handle(t) == Dispatch(t, accounts, transactions)

----------------------------------------------------------------------------
\* Claims.  A claim about what a record does is stated for every record t of
\* Records in every reachable state, on Handle(t): the state and the result
\* that the next iteration of run() produces if the stream yields t there.

\* C1: after any sequence of records, every account of the account table has
\* total = available + held.
C1_TotalIsAvailablePlusHeld ==
    \A c \in DOMAIN accounts :
        accounts[c].total = accounts[c].available + accounts[c].held

\* A dispute has moved funds to held and left available negative.
C1_Witness ==
    \E c \in DOMAIN accounts :
        /\ accounts[c].held > 0
        /\ accounts[c].available < 0
        /\ accounts[c].total > 0

\* C2: in every state and for every record of any kind, if the handler returns
\* an error then the accounts (all fields, and the set of them) and the
\* transactions (the set of them, and every status) are as before the call.
C2_RejectedChangesNothing ==
    [][\A t \in Records :
          LET out == Handle(t) IN
          (/\ ~IsOk(out.res)
           /\ accounts' = out.accounts
           /\ transactions' = out.transactions)
          => (accounts' = accounts /\ transactions' = transactions)]_vars

\* C3: once a deposit or withdrawal with id t is in the table (it was
\* accepted), every record leaves the entry's kind, client and amount as they
\* are, and every deposit or withdrawal record carrying id t, whatever its
\* kind, client and amount, is rejected with DuplicateTransaction and changes
\* no account and no transaction.
C3_DuplicateRejected ==
    \A t \in Records :
        LET out == Handle(t) IN
        \A id \in DOMAIN transactions :
            /\ id \in DOMAIN out.transactions
            /\ out.transactions[id].inner = transactions[id].inner
            /\ (t.tx_type \in {"Deposit", "Withdrawal"} /\ t.tx_id = id)
               => /\ out.res = DuplicateTransaction(id)
                  /\ out.accounts = accounts
                  /\ out.transactions = transactions

\* An accepted deposit whose id comes again in a withdrawal of another client,
\* otherwise acceptable, and is rejected as a duplicate.
C3_Witness ==
    \E id \in DOMAIN transactions : \E t \in RecordsOf("Withdrawal") :
        /\ transactions[id].inner.tx_type = "Deposit"
        /\ t.tx_id = id
        /\ t.client_id # transactions[id].inner.client_id
        /\ t.client_id \in DOMAIN accounts
        /\ t.amount # None
        /\ t.amount[1] > 0
        /\ accounts[t.client_id].available >= t.amount[1]
        /\ Handle(t).res.kind = "DuplicateTransaction"

\* C4: once an account is locked, every record of any kind whose client is that
\* account's client is rejected, and no record (of any client) changes the
\* account's available, held, total or locked, nor the status of a ledger
\* transaction of that client.
C4_LockedAccountFrozen ==
    \A t \in Records :
        LET out == Handle(t) IN
        \A c \in DOMAIN accounts :
            accounts[c].locked =>
                /\ t.client_id = c => ~IsOk(out.res)
                /\ c \in DOMAIN out.accounts
                /\ out.accounts[c] = accounts[c]
                /\ \A id \in DOMAIN transactions :
                       transactions[id].inner.client_id = c
                       => /\ id \in DOMAIN out.transactions
                          /\ out.transactions[id] = transactions[id]

\* A locked account that still has a Valid deposit: a dispute of it by its
\* owner would be accepted but for the lock.
C4_Witness ==
    \E c \in DOMAIN accounts : \E id \in DOMAIN transactions :
        /\ accounts[c].locked
        /\ transactions[id].inner.client_id = c
        /\ transactions[id].inner.tx_type = "Deposit"
        /\ transactions[id].status = "Valid"
        /\ ~IsOk(Handle(Transaction("Dispute", c, id, None)).res)

\* C5: the locked flag is monotone: no record clears it (the account stays in
\* the table and stays locked), and a record that sets it is a chargeback of
\* that client that returns Ok.
C5_LockedMonotone ==
    \A t \in Records :
        LET out == Handle(t) IN
        /\ \A c \in DOMAIN accounts :
               accounts[c].locked => (c \in DOMAIN out.accounts /\ out.accounts[c].locked)
        /\ \A c \in DOMAIN out.accounts :
               (out.accounts[c].locked /\ ~(c \in DOMAIN accounts /\ accounts[c].locked))
               => (t.tx_type = "Chargeback" /\ t.client_id = c /\ IsOk(out.res))

\* A locked account and a deposit record for it with a fresh id.
C5_Witness ==
    \E c \in DOMAIN accounts : \E t \in RecordsOf("Deposit") :
        /\ accounts[c].locked
        /\ t.client_id = c
        /\ t.tx_id \notin DOMAIN transactions
        /\ t.amount = Some(50)
        /\ Handle(t).accounts[c].locked

\* C6 as claimed: whenever the account of a record's client is locked, the
\* record, of any kind, is rejected with AccountLocked.
C6_LockedAlwaysAccountLocked ==
    \A t \in Records :
        (t.client_id \in DOMAIN accounts /\ accounts[t.client_id].locked)
        => Handle(t).res = AccountLocked(t.client_id)

\* The error of the first check that the handler of t makes before its lock
\* check and that t fails in the current state; "AccountLocked" if it passes
\* them all.  Deposit, withdrawal: fresh id, amount present, amount >= 0.
\* Dispute, resolve, chargeback: the id is in the table with kind Deposit, the
\* status is the one the kind requires, the stored client is the record's.
C6_ErrorBeforeLock(t) ==
    IF t.tx_type \in {"Deposit", "Withdrawal"}
    THEN IF t.tx_id \in DOMAIN transactions THEN "DuplicateTransaction"
         ELSE IF t.amount = None THEN "MissingAmount"
         ELSE IF t.amount[1] < 0 THEN "MustBePositive"
         ELSE "AccountLocked"
    ELSE IF t.tx_id \notin DOMAIN transactions THEN "NotFound"
         ELSE IF transactions[t.tx_id].inner.tx_type # "Deposit" THEN "NotFound"
         ELSE IF transactions[t.tx_id].status
                 # (IF t.tx_type = "Dispute" THEN "Valid" ELSE "Disputed")
              THEN "IncorrectState"
         ELSE IF transactions[t.tx_id].inner.client_id # t.client_id
              THEN "ClientIdMismatch"
         ELSE "AccountLocked"

\* C6 amended: whenever the account of a record's client is locked, the record,
\* of any kind, is rejected and changes nothing; the error is AccountLocked if
\* the record passes the checks its handler makes before the lock check, and
\* otherwise the error of the first of those checks that fails.
C6_LockedRejectedInCheckOrder ==
    \A t \in Records :
        (t.client_id \in DOMAIN accounts /\ accounts[t.client_id].locked)
        => LET out == Handle(t) IN
           /\ out.res.kind = C6_ErrorBeforeLock(t)
           /\ out.res.kind = "AccountLocked" => out.res = AccountLocked(t.client_id)
           /\ out.accounts = accounts
           /\ out.transactions = transactions

\* A locked account for which a deposit and a withdrawal are each rejected
\* with AccountLocked, another deposit with DuplicateTransaction, and a
\* chargeback by the account's client with IncorrectState.
C6_Witness ==
    \E c \in DOMAIN accounts :
        /\ accounts[c].locked
        /\ \E t \in RecordsOf("Deposit") :
               t.client_id = c /\ Handle(t).res.kind = "AccountLocked"
        /\ \E t \in RecordsOf("Withdrawal") :
               t.client_id = c /\ Handle(t).res.kind = "AccountLocked"
        /\ \E t \in RecordsOf("Deposit") :
               t.client_id = c /\ Handle(t).res.kind = "DuplicateTransaction"
        /\ \E t \in RecordsOf("Chargeback") :
               t.client_id = c /\ Handle(t).res.kind = "IncorrectState"

\* C7: a record changes the status of a ledger transaction only along
\* Valid -> Disputed (a Dispute record), Disputed -> Valid (a Resolve record) or
\* Disputed -> Chargeback (a Chargeback record), each for the record's own
\* transaction id; a transaction in status Chargeback keeps that status.
C7_StatusTransitions ==
    \A t \in Records :
        LET out == Handle(t) IN
        \A id \in DOMAIN transactions :
            LET old == transactions[id].status
                new == out.transactions[id].status IN
            /\ id \in DOMAIN out.transactions
            /\ new # old =>
                   /\ t.tx_id = id
                   /\ \/ (old = "Valid" /\ new = "Disputed" /\ t.tx_type = "Dispute")
                      \/ (old = "Disputed" /\ new = "Valid" /\ t.tx_type = "Resolve")
                      \/ (old = "Disputed" /\ new = "Chargeback" /\ t.tx_type = "Chargeback")
            /\ old = "Chargeback" => new = "Chargeback"

\* A deposit in status Chargeback whose owner's account is not locked: a
\* dispute or a resolve of it by its owner passes every check but the status.
C7_Witness ==
    \E id \in DOMAIN transactions :
        /\ transactions[id].status = "Chargeback"
        /\ ~accounts[transactions[id].inner.client_id].locked
        /\ Handle(Transaction("Dispute", transactions[id].inner.client_id, id, None)).res.kind
               = "IncorrectState"

\* C8: a dispute of a deposit in status Disputed or Chargeback, and a resolve or
\* chargeback of a deposit in status Valid or Chargeback, is rejected with
\* IncorrectState; the accounts and the status of the deposit stay as they are.
C8_IncorrectStateRejected ==
    \A t \in Records :
        LET id == t.tx_id
            out == Handle(t) IN
        (/\ id \in DOMAIN transactions
         /\ transactions[id].inner.tx_type = "Deposit"
         /\ \/ /\ t.tx_type = "Dispute"
               /\ transactions[id].status \in {"Disputed", "Chargeback"}
            \/ /\ t.tx_type \in {"Resolve", "Chargeback"}
               /\ transactions[id].status \in {"Valid", "Chargeback"})
        => /\ out.res = IncorrectState(t.tx_type, transactions[id].status, id)
           /\ out.accounts = accounts
           /\ out.transactions[id].status = transactions[id].status

\* A Valid deposit of a positive amount on an unlocked account, that its owner
\* tries to charge back without a dispute; and a Disputed one disputed again.
C8_Witness ==
    /\ \E id \in DOMAIN transactions :
           LET owner == transactions[id].inner.client_id IN
           /\ transactions[id].inner.tx_type = "Deposit"
           /\ transactions[id].status = "Valid"
           /\ transactions[id].inner.amount[1] > 0
           /\ ~accounts[owner].locked
           /\ Handle(Transaction("Chargeback", owner, id, None)).res.kind = "IncorrectState"
    /\ \E id \in DOMAIN transactions :
           LET owner == transactions[id].inner.client_id IN
           /\ transactions[id].status = "Disputed"
           /\ Handle(Transaction("Dispute", owner, id, None)).res.kind = "IncorrectState"

\* C9: for an accepted withdrawal with id t, every record leaves the entry a
\* withdrawal, and every dispute, resolve and chargeback record referencing t,
\* whatever its client, is rejected with NotFound and changes no account.
C9_WithdrawalNotDisputable ==
    \A t \in Records :
        LET out == Handle(t) IN
        \A id \in DOMAIN transactions :
            transactions[id].inner.tx_type = "Withdrawal" =>
                /\ id \in DOMAIN out.transactions
                /\ out.transactions[id].inner.tx_type = "Withdrawal"
                /\ (t.tx_type \in {"Dispute", "Resolve", "Chargeback"} /\ t.tx_id = id)
                   => /\ out.res = NotFound(t.tx_type, id)
                      /\ out.accounts = accounts

\* An accepted withdrawal of a positive amount, on an unlocked account, that
\* its owner disputes.
C9_Witness ==
    \E id \in DOMAIN transactions :
        LET owner == transactions[id].inner.client_id IN
        /\ transactions[id].inner.tx_type = "Withdrawal"
        /\ transactions[id].inner.amount[1] > 0
        /\ ~accounts[owner].locked
        /\ Handle(Transaction("Dispute", owner, id, None)).res.kind = "NotFound"

\* The records of the sequence of C10, for client 1.
C10_Deposit == Transaction("Deposit", 1, 1, Some(100))
C10_Withdrawal == Transaction("Withdrawal", 1, 2, Some(50))
C10_Dispute == Transaction("Dispute", 1, 1, None)
C10_Chargeback == Transaction("Chargeback", 1, 1, None)
C10_Resolve == Transaction("Resolve", 1, 1, None)

\* The state each record of the sequence leaves, from the empty state.
C10_AfterDeposit == Dispatch(C10_Deposit, <<>>, <<>>)
C10_AfterWithdrawal ==
    Dispatch(C10_Withdrawal, C10_AfterDeposit.accounts, C10_AfterDeposit.transactions)
C10_AfterDispute ==
    Dispatch(C10_Dispute, C10_AfterWithdrawal.accounts, C10_AfterWithdrawal.transactions)

C10_Balances(account, available, held, total) ==
    /\ account.available = available
    /\ account.held = held
    /\ account.total = total

\* C10: from the empty state, deposit(tx=1, 100), withdrawal(tx=2, 50),
\* dispute(tx=1) of one client are accepted and yield available = -50,
\* held = 100, total = 50; in that state a chargeback(tx=1) is rejected with
\* BalanceInsufficient and leaves accounts and transactions as they are, and a
\* resolve(tx=1) is accepted and yields available = 50, held = 0, total = 50.
C10_NegativeBalanceSequence ==
    (accounts = C10_AfterDispute.accounts /\ transactions = C10_AfterDispute.transactions)
    => /\ IsOk(C10_AfterDeposit.res)
       /\ IsOk(C10_AfterWithdrawal.res)
       /\ IsOk(C10_AfterDispute.res)
       /\ C10_Balances(accounts[1], -50, 100, 50)
       /\ LET out == Handle(C10_Chargeback) IN
          /\ out.res.kind = "BalanceInsufficient"
          /\ out.accounts = accounts
          /\ out.transactions = transactions
       /\ LET out == Handle(C10_Resolve) IN
          /\ IsOk(out.res)
          /\ C10_Balances(out.accounts[1], 50, 0, 50)

----------------------------------------------------------------------------
\* The state in which the sequence of C11 ends its first two records:
\* deposit(client=1, tx=1, 100) and dispute(tx=1), from the empty state.
C11_AfterDispute ==
    Dispatch(C10_Dispute, C10_AfterDeposit.accounts, C10_AfterDeposit.transactions)

\* C11: an accepted chargeback of a deposit of amount a takes a from held and
\* from total of the owner's account, leaves available as it is, locks the
\* account and sets the deposit's status to Chargeback; nothing else changes.
\* After deposit(client=1, tx=1, 100) and dispute(tx=1), chargeback(tx=1) is
\* accepted and leaves available = 0, held = 0, total = 0, locked = true.
C11_ChargebackEffect ==
    /\ \A t \in RecordsOf("Chargeback") :
           (t.tx_id \in DOMAIN transactions /\ transactions[t.tx_id].status = "Disputed")
           => LET out == Handle(t)
                  c == t.client_id
                  a == transactions[t.tx_id].inner.amount[1] IN
              IsOk(out.res)
              => /\ out.accounts[c].held = accounts[c].held - a
                 /\ out.accounts[c].total = accounts[c].total - a
                 /\ out.accounts[c].available = accounts[c].available
                 /\ out.accounts[c].locked
                 /\ out.accounts = Insert(accounts, c, out.accounts[c])
                 /\ out.transactions[t.tx_id].status = "Chargeback"
                 /\ out.transactions = set_status(transactions, t.tx_id, "Chargeback")
    /\ (accounts = C11_AfterDispute.accounts /\ transactions = C11_AfterDispute.transactions)
       => LET out == Handle(C10_Chargeback) IN
          /\ IsOk(C11_AfterDispute.res)
          /\ C10_Balances(accounts[1], 0, 100, 100)
          /\ IsOk(out.res)
          /\ C10_Balances(out.accounts[1], 0, 0, 0)
          /\ out.accounts[1].locked

\* The state the first two records of the sequence leave, where the deposit
\* of 100 is disputed and held, and its chargeback is accepted.
C11_Witness ==
    /\ accounts = C11_AfterDispute.accounts
    /\ transactions = C11_AfterDispute.transactions
    /\ transactions[1].status = "Disputed"
    /\ accounts[1].held = 100
    /\ IsOk(Handle(C10_Chargeback).res)

----------------------------------------------------------------------------
\* C12 as stated: every withdrawal for a client that has no account returns
\* AccountNotFound and leaves accounts and transactions as they are.
C12_NoAccountAlwaysAccountNotFound ==
    \A t \in RecordsOf("Withdrawal") :
        t.client_id \notin DOMAIN accounts
        => LET out == Handle(t) IN
           /\ out.res = AccountNotFound(t.client_id)
           /\ out.accounts = accounts
           /\ out.transactions = transactions

\* The error of the checks Withdrawal::handle makes before it looks the
\* account up, in their order; Ok when the withdrawal passes them all.
C12_ErrorBeforeLookup(t) ==
    IF t.tx_id \in DOMAIN transactions THEN DuplicateTransaction(t.tx_id) ELSE
    IF t.amount = None THEN MissingAmount(t.tx_type, t.tx_id) ELSE
    IF t.amount[1] < 0 THEN MustBePositive(t.tx_type, t.tx_id, t.amount[1]) ELSE
    Ok

\* C12 (amended): a withdrawal for a client that has no account is rejected,
\* creates no account and inserts no transaction; the error is AccountNotFound
\* of the client when the withdrawal has a fresh id and a present amount >= 0,
\* and otherwise the error of the first of those checks that fails.
C12_NoAccountRejectedInCheckOrder ==
    \A t \in RecordsOf("Withdrawal") :
        t.client_id \notin DOMAIN accounts
        => LET out == Handle(t)
               early == C12_ErrorBeforeLookup(t) IN
           /\ out.res = IF IsOk(early) THEN AccountNotFound(t.client_id) ELSE early
           /\ t.client_id \notin DOMAIN out.accounts
           /\ out.accounts = accounts
           /\ out.transactions = transactions

\* Another client has an account and a transaction, and a withdrawal of a
\* positive amount with a fresh id for a client without account is rejected
\* with AccountNotFound.
C12_Witness ==
    \E c \in ClientIds, id \in TxIds :
        /\ c \notin DOMAIN accounts
        /\ id \notin DOMAIN transactions
        /\ DOMAIN accounts # {}
        /\ DOMAIN transactions # {}
        /\ Handle(Transaction("Withdrawal", c, id, Some(50))).res = AccountNotFound(c)

----------------------------------------------------------------------------
C13_ErrorBeforeBalance(t) ==
    LET early == C12_ErrorBeforeLookup(t) IN
    IF ~IsOk(early) THEN early ELSE
    IF t.client_id \notin DOMAIN accounts THEN AccountNotFound(t.client_id) ELSE
    IF accounts[t.client_id].locked THEN AccountLocked(t.client_id) ELSE
    Ok

----------------------------------------------------------------------------
\* The sum of the amounts of the entries ids of the table txs.
RECURSIVE C14_Sum(_, _)
C14_Sum(txs, ids) ==
    IF ids = {} THEN 0 ELSE
    LET id == CHOOSE x \in ids : TRUE IN
    txs[id].inner.amount[1] + C14_Sum(txs, ids \ {id})

\* The accepted records of a kind of a client: the entries of the table (an
\* entry is inserted when, and only when, a deposit or withdrawal is accepted).
C14_Accepted(kind, c) ==
    {id \in DOMAIN transactions :
        transactions[id].inner.tx_type = kind /\ transactions[id].inner.client_id = c}

\* C14: in a run of deposit and withdrawal records only, each account's total
\* and available are the sum of the client's accepted deposits less the sum of
\* the client's accepted withdrawals, and held is 0; a client without account
\* has no accepted record.
C14_BalanceIsDepositsLessWithdrawals ==
    \A c \in ClientIds :
        LET net == C14_Sum(transactions, C14_Accepted("Deposit", c))
                   - C14_Sum(transactions, C14_Accepted("Withdrawal", c)) IN
        IF c \in DOMAIN accounts
        THEN /\ accounts[c].total = net
             /\ accounts[c].available = net
             /\ accounts[c].held = 0
        ELSE C14_Accepted("Deposit", c) \cup C14_Accepted("Withdrawal", c) = {}

\* A client with an accepted deposit of 100 and an accepted withdrawal of 50.
C14_Witness ==
    \E c \in DOMAIN accounts :
        /\ C14_Sum(transactions, C14_Accepted("Deposit", c)) = 100
        /\ C14_Sum(transactions, C14_Accepted("Withdrawal", c)) = 50
        /\ accounts[c].total = 50

----------------------------------------------------------------------------
\* C15: an accepted dispute of a Valid deposit of amount a takes a from
\* available and adds it to held of the owner's account, with total and locked
\* as they were, and sets the deposit's status to Disputed; nothing else
\* changes.  The dispute by the owner on an unlocked account is accepted
\* whatever available is, also when available < a, and then leaves
\* available < 0.
C15_DisputeEffect ==
    \A t \in RecordsOf("Dispute") :
        (/\ t.tx_id \in DOMAIN transactions
         /\ transactions[t.tx_id].inner.tx_type = "Deposit"
         /\ transactions[t.tx_id].status = "Valid")
        => LET out == Handle(t)
               c == t.client_id
               a == transactions[t.tx_id].inner.amount[1] IN
           /\ IsOk(out.res)
              => /\ out.accounts[c].available = accounts[c].available - a
                 /\ out.accounts[c].held = accounts[c].held + a
                 /\ out.accounts[c].total = accounts[c].total
                 /\ out.accounts[c].locked = accounts[c].locked
                 /\ out.accounts = Insert(accounts, c, out.accounts[c])
                 /\ out.transactions[t.tx_id].status = "Disputed"
                 /\ out.transactions = set_status(transactions, t.tx_id, "Disputed")
           /\ (c = transactions[t.tx_id].inner.client_id /\ ~accounts[c].locked)
              => /\ IsOk(out.res)
                 /\ accounts[c].available < a => out.accounts[c].available < 0

\* A Valid deposit larger than what is available on its owner's unlocked
\* account: the dispute is accepted and leaves available negative.
C15_Witness ==
    \E id \in DOMAIN transactions :
        LET owner == transactions[id].inner.client_id
            out == Handle(Transaction("Dispute", owner, id, None)) IN
        /\ transactions[id].inner.tx_type = "Deposit"
        /\ transactions[id].status = "Valid"
        /\ ~accounts[owner].locked
        /\ accounts[owner].available >= 0
        /\ accounts[owner].available < transactions[id].inner.amount[1]
        /\ IsOk(out.res)
        /\ out.accounts[owner].available < 0

----------------------------------------------------------------------------
\* The resolve record that answers the dispute record d.
C16_ResolveOf(d) == Transaction("Resolve", d.client_id, d.tx_id, None)

\* The records that may come between a dispute d and its resolve: those of
\* other clients for other transactions.
C16_Between(d) ==
    {b \in Records : b.client_id # d.client_id /\ b.tx_id # d.tx_id}

\* C16: from every state, an accepted dispute d of a deposit followed by an
\* accepted resolve of the same deposit leaves the owner's account (available,
\* held, total, locked) and the deposit's entry (status Valid) as they were
\* before the dispute: with no record in between the whole state is restored,
\* and with a record of another client for another transaction in between the
\* owner's account and the entry are.  While a deposit is Disputed, a record of
\* another client for another transaction changes neither the owner's account
\* nor the entry, so the same holds after any number of such records.
C16_ResolveUndoesDispute ==
    /\ \A d \in RecordsOf("Dispute") :
           (/\ d.tx_id \in DOMAIN transactions
            /\ transactions[d.tx_id].status = "Valid"
            /\ d.client_id = transactions[d.tx_id].inner.client_id)
           => LET s1 == Handle(d)
                  s2 == Dispatch(C16_ResolveOf(d), s1.accounts, s1.transactions) IN
              IsOk(s1.res)
              => /\ IsOk(s2.res)
                    => /\ s2.accounts = accounts
                       /\ s2.transactions = transactions
                 /\ \A b \in C16_Between(d) :
                        LET sb == Dispatch(b, s1.accounts, s1.transactions)
                            s3 == Dispatch(C16_ResolveOf(d), sb.accounts, sb.transactions) IN
                        IsOk(s3.res)
                        => /\ s3.accounts[d.client_id] = accounts[d.client_id]
                           /\ s3.transactions[d.tx_id] = transactions[d.tx_id]
    /\ \A id \in DOMAIN transactions :
           transactions[id].status = "Disputed"
           => LET c == transactions[id].inner.client_id IN
              \A b \in Records :
                  (b.client_id # c /\ b.tx_id # id)
                  => LET sb == Handle(b) IN
                     /\ sb.accounts[c] = accounts[c]
                     /\ sb.transactions[id] = transactions[id]

\* A Valid deposit of a positive amount whose dispute is accepted, then a
\* deposit of another client under another id is accepted, then the resolve.
C16_Witness ==
    \E id \in DOMAIN transactions :
        \E b \in RecordsOf("Deposit") :
            LET d == Transaction("Dispute", transactions[id].inner.client_id, id, None)
                s1 == Handle(d)
                sb == Dispatch(b, s1.accounts, s1.transactions)
                s3 == Dispatch(C16_ResolveOf(d), sb.accounts, sb.transactions) IN
            /\ transactions[id].status = "Valid"
            /\ transactions[id].inner.amount[1] > 0
            /\ b \in C16_Between(d)
            /\ IsOk(s1.res)
            /\ IsOk(sb.res)
            /\ IsOk(s3.res)
            /\ s3.transactions[id].status = "Valid"

----------------------------------------------------------------------------
\* The status the kind of a dispute, resolve or chargeback record requires of
\* the deposit it names.
C17_RequiredStatus(kind) == IF kind = "Dispute" THEN "Valid" ELSE "Disputed"

\* C17: a dispute, resolve or chargeback record that names a deposit of the
\* table in the status its kind requires, and whose client id is not the
\* deposit's, returns ClientIdMismatch (expected: the deposit's client, actual:
\* the record's) and changes no account (the owner's and the record's client's
\* among them) and no transaction (the deposit's status among them).
C17_ClientIdMismatchRejected ==
    \A t \in Records :
        (/\ t.tx_type \in {"Dispute", "Resolve", "Chargeback"}
         /\ t.tx_id \in DOMAIN transactions
         /\ transactions[t.tx_id].inner.tx_type = "Deposit"
         /\ transactions[t.tx_id].status = C17_RequiredStatus(t.tx_type)
         /\ transactions[t.tx_id].inner.client_id # t.client_id)
        => LET out == Handle(t)
               owner == transactions[t.tx_id].inner.client_id IN
           /\ out.res = ClientIdMismatch(owner, t.client_id)
           /\ out.accounts[owner] = accounts[owner]
           /\ t.client_id \in DOMAIN accounts
              => out.accounts[t.client_id] = accounts[t.client_id]
           /\ out.transactions[t.tx_id].status = transactions[t.tx_id].status
           /\ out.accounts = accounts
           /\ out.transactions = transactions

\* A Disputed deposit of a positive amount on an unlocked account, and another
\* client with an unlocked account whose resolve and chargeback of the deposit
\* are rejected with ClientIdMismatch.
C17_Witness ==
    \E id \in DOMAIN transactions, c \in DOMAIN accounts :
        LET owner == transactions[id].inner.client_id IN
        /\ c # owner
        /\ transactions[id].status = "Disputed"
        /\ transactions[id].inner.amount[1] > 0
        /\ ~accounts[owner].locked
        /\ ~accounts[c].locked
        /\ Handle(Transaction("Chargeback", c, id, None)).res = ClientIdMismatch(owner, c)
        /\ Handle(Transaction("Resolve", c, id, None)).res = ClientIdMismatch(owner, c)

----------------------------------------------------------------------------
\* C18: whatever the record, every account of the table is still in the table
\* after it; the set of accounts differs after it only if the record is a
\* deposit that is accepted, for a client without account, and then the one
\* new account is that client's, with the deposit's amount as available and as
\* total, held 0 and unlocked.  So a rejected deposit creates no account and no
\* withdrawal, dispute, resolve or chargeback does.
C18_AccountsOnlyByAcceptedDeposit ==
    \A t \in Records :
        LET out == Handle(t) IN
        /\ DOMAIN accounts \subseteq DOMAIN out.accounts
        /\ DOMAIN out.accounts # DOMAIN accounts
           => /\ t.tx_type = "Deposit"
              /\ IsOk(out.res)
              /\ t.client_id \notin DOMAIN accounts
              /\ DOMAIN out.accounts = DOMAIN accounts \cup {t.client_id}
              /\ out.accounts[t.client_id] =
                     [client_id |-> t.client_id, available |-> t.amount[1], held |-> 0,
                      total |-> t.amount[1], locked |-> FALSE]
        /\ (t.tx_type = "Deposit" /\ IsOk(out.res)) => t.client_id \in DOMAIN out.accounts

\* One client has an account and the other has none: a deposit of 100 for the
\* other is accepted and creates the account, a deposit of a negative amount
\* and a withdrawal for the other are rejected and create none.
C18_Witness ==
    \E c \in ClientIds, id \in TxIds :
        /\ DOMAIN accounts # {}
        /\ c \notin DOMAIN accounts
        /\ id \notin DOMAIN transactions
        /\ LET out == Handle(Transaction("Deposit", c, id, Some(100))) IN
           IsOk(out.res) /\ out.accounts[c].total = 100
        /\ LET out == Handle(Transaction("Deposit", c, id, Some(-50))) IN
           ~IsOk(out.res) /\ c \notin DOMAIN out.accounts
        /\ LET out == Handle(Transaction("Withdrawal", c, id, Some(0))) IN
           ~IsOk(out.res) /\ c \notin DOMAIN out.accounts

----------------------------------------------------------------------------
\* C19: whatever the record, every entry of the transaction table is still in
\* the table after it with its kind, client id, transaction id and amount; the
\* table has a new entry after it if and only if the record is a deposit or a
\* withdrawal that is accepted, and then the one new entry is under the
\* record's id, with status Valid and the record's kind, client id, id and
\* amount.  So no dispute, resolve or chargeback adds an entry.
C19_TransactionsOnlyByAcceptedRecord ==
    \A t \in Records :
        LET out == Handle(t) IN
        /\ \A id \in DOMAIN transactions :
               /\ id \in DOMAIN out.transactions
               /\ out.transactions[id].inner = transactions[id].inner
               /\ out.transactions[id].inner.tx_id = id
        /\ DOMAIN out.transactions # DOMAIN transactions
           <=> (t.tx_type \in {"Deposit", "Withdrawal"} /\ IsOk(out.res))
        /\ DOMAIN out.transactions # DOMAIN transactions
           => /\ DOMAIN out.transactions = DOMAIN transactions \cup {t.tx_id}
              /\ out.transactions[t.tx_id] = [inner |-> t, status |-> "Valid"]

\* The table holds a deposit, a withdrawal of 50 is accepted under a fresh id
\* and a deposit without amount is not, and a dispute naming the fresh id adds
\* nothing.
C19_Witness ==
    \E id \in TxIds, c \in DOMAIN accounts :
        /\ id \notin DOMAIN transactions
        /\ \E d \in DOMAIN transactions : transactions[d].inner.tx_type = "Deposit"
        /\ Handle(Transaction("Deposit", c, id, None)).transactions = transactions
        /\ LET out == Handle(Transaction("Withdrawal", c, id, Some(50))) IN
           /\ IsOk(out.res)
           /\ out.transactions[id].inner.tx_type = "Withdrawal"
        /\ Handle(Transaction("Dispute", c, id, None)).transactions = transactions

----------------------------------------------------------------------------
\* C20: a step of the loop that handles a record the handler rejects leaves
\* run() in the loop, with accounts and transactions as they were before the
\* record, so that the next record is handled against the unchanged state;
\* and when the stream ends, in whatever state the accepted and rejected
\* records left, run() returns Ok(()).
C20_RejectionDoesNotStopRun ==
    [][/\ \A t \in Records :
              LET out == Handle(t) IN
              (/\ Next
               /\ ~IsOk(out.res)
               /\ accounts' = out.accounts
               /\ transactions' = out.transactions)
              => /\ pc' = "loop"
                 /\ accounts' = accounts
                 /\ transactions' = transactions
       /\ StreamEnd => pc' = "done"]_vars

----------------------------------------------------------------------------
\* C21: once the stream has yielded an error, run() has returned the error
\* (pc = "failed"), it has printed no row, whatever accounts the earlier
\* records built, and it takes no further step: no later record is handled.
C21_StreamErrorStopsRun ==
    pc = "failed"
    => /\ stdout = <<>>
       /\ ~ENABLED NextRun

\* The stream failed after records that built the accounts of both clients.
C21_Witness ==
    /\ pc = "failed"
    /\ DOMAIN accounts = ClientIds
    /\ DOMAIN transactions # {}

----------------------------------------------------------------------------
\* C22: handling a record of client c, accepted or rejected, leaves the
\* account of every other client as it is in all fields (and creates none for
\* a client other than c), and leaves the status of every transaction of the
\* table that another client owns as it is.
C22_OtherClientsUntouched ==
    \A t \in Records :
        LET out == Handle(t) IN
        /\ \A c \in ClientIds \ {t.client_id} :
               IF c \in DOMAIN accounts
               THEN out.accounts[c] = accounts[c]
               ELSE c \notin DOMAIN out.accounts
        /\ \A id \in DOMAIN transactions :
               transactions[id].inner.client_id # t.client_id
               => out.transactions[id].status = transactions[id].status

\* Both clients have an account, one owns a Disputed deposit of a positive
\* amount, and the other's chargeback of it is rejected while the other's
\* dispute of its own Valid deposit is accepted.
C22_Witness ==
    \E id, own \in DOMAIN transactions :
        LET owner == transactions[id].inner.client_id
            c == transactions[own].inner.client_id IN
        /\ c # owner
        /\ transactions[id].status = "Disputed"
        /\ transactions[id].inner.amount[1] > 0
        /\ transactions[own].inner.amount[1] > 0
        /\ ~IsOk(Handle(Transaction("Chargeback", c, id, None)).res)
        /\ IsOk(Handle(Transaction("Dispute", c, own, None)).res)

----------------------------------------------------------------------------
\* C23: for every file, the stream never delivers the first record: a file
\* of one readable record yields no item at all, a file without record yields
\* the one item Err(NoRecords), and after a readable first record the k-th
\* item delivered is the (k+1)-th record of the file, deserialized, up to the
\* end of the file or to the first record that fails, which yields the
\* terminal Err(Deserialize); with no failing record, every record after the
\* first is delivered.
C23_HeaderConsumed ==
    LET items == parse_csv(input) IN
    /\ input = <<>> => items = <<StreamErr("NoRecords")>>
    /\ (Len(input) = 1 /\ ~input[1].io) => items = <<>>
    /\ (input # <<>> /\ ~input[1].io)
       => /\ Len(items) <= Len(input) - 1
          /\ \A k \in DOMAIN items :
                 LET col == deserialize(input[k + 1], Len(input[1].fields)) IN
                 IF items[k].kind = "Ok"
                 THEN col = Some(items[k].tx)
                 ELSE /\ k = Len(items)
                      /\ items[k] = StreamErr("Deserialize")
                      /\ col = None
          /\ (\A k \in DOMAIN items : items[k].kind = "Ok")
             => Len(items) = Len(input) - 1

\* A file of a header and two well-formed records, both of them handled,
\* the first record of the file being no transaction.
C23_Witness ==
    /\ Len(input) = 3
    /\ input[1] = Raw(<<"type", "client", "tx", "amount">>)
    /\ Len(parse_csv(input)) = 2
    /\ parse_csv(input)[1] = StreamOk(Transaction("Deposit", 1, 1, Some(100)))
    /\ parse_csv(input)[2] = StreamOk(Transaction("Withdrawal", 1, 2, Some(50)))
    /\ taken = 2
    /\ pc = "done"

----------------------------------------------------------------------------
\* C24: when a chargeback of a deposit is rejected with BalanceInsufficient
\* on an account whose available is negative, the deposit still has status
\* Disputed after it, and a resolve of the deposit by the same client handled
\* next is accepted and moves the deposit's amount from held to available.
C24_ResolveAfterRejectedChargeback ==
    \A t \in RecordsOf("Chargeback") :
        (/\ t.tx_id \in DOMAIN transactions
         /\ transactions[t.tx_id].status = "Disputed"
         /\ t.client_id \in DOMAIN accounts
         /\ accounts[t.client_id].available < 0)
        => LET out == Handle(t)
               c == t.client_id
               a == transactions[t.tx_id].inner.amount[1]
               next == Dispatch(Transaction("Resolve", c, t.tx_id, None),
                                out.accounts, out.transactions) IN
           out.res.kind = "BalanceInsufficient"
           => /\ out.transactions[t.tx_id].status = "Disputed"
              /\ IsOk(next.res)
              /\ next.accounts[c].available = accounts[c].available + a
              /\ next.accounts[c].held = accounts[c].held - a

----------------------------------------------------------------------------
\* What C25 requires of a chargeback record t besides the balances: the
\* deposit it names is in the table with status Disputed, the record's client
\* is the deposit's, and that client's account is unlocked.
C25_AllButBalance(t) ==
    /\ t.tx_id \in DOMAIN transactions
    /\ transactions[t.tx_id].inner.tx_type = "Deposit"
    /\ transactions[t.tx_id].status = "Disputed"
    /\ transactions[t.tx_id].inner.client_id = t.client_id
    /\ t.client_id \in DOMAIN accounts
    /\ ~accounts[t.client_id].locked

\* C25: a chargeback is accepted if and only if the deposit it names is in the
\* table with kind Deposit and status Disputed, the record's client is the
\* deposit's, the account is unlocked, available >= 0 and held >= a, a being
\* the deposit's amount; when all of these but the balance conditions hold and
\* available < 0, it returns BalanceInsufficient reporting available + a.
C25_ChargebackAcceptedIff ==
    \A t \in RecordsOf("Chargeback") :
        LET out == Handle(t) IN
        /\ IsOk(out.res)
           <=> /\ C25_AllButBalance(t)
               /\ accounts[t.client_id].available >= 0
               /\ accounts[t.client_id].held >= transactions[t.tx_id].inner.amount[1]
        /\ (C25_AllButBalance(t) /\ accounts[t.client_id].available < 0)
           => out.res = BalanceInsufficient(
                            accounts[t.client_id].available
                                + transactions[t.tx_id].inner.amount[1],
                            "Chargeback", t.tx_id, transactions[t.tx_id].inner.amount[1])

\* A Disputed deposit of 100 on an unlocked account with available = -50: the
\* owner's chargeback is rejected reporting 50.
C25_Witness ==
    \E id \in DOMAIN transactions :
        LET t == Transaction("Chargeback", transactions[id].inner.client_id, id, None) IN
        /\ C25_AllButBalance(t)
        /\ transactions[id].inner.amount[1] = 100
        /\ accounts[t.client_id].available = -50
        /\ Handle(t).res = BalanceInsufficient(50, "Chargeback", id, 100)

----------------------------------------------------------------------------
\* The error of the first check a deposit or withdrawal record t fails, in the
\* order of C26: duplicate id, amount present, amount non-negative, account
\* exists (withdrawal), account unlocked, available >= amount (withdrawal);
\* Ok when it fails none.
C26_FirstFailing(t) ==
    IF t.tx_id \in DOMAIN transactions THEN DuplicateTransaction(t.tx_id) ELSE
    IF t.amount = None THEN MissingAmount(t.tx_type, t.tx_id) ELSE
    IF t.amount[1] < 0 THEN MustBePositive(t.tx_type, t.tx_id, t.amount[1]) ELSE
    IF t.tx_type = "Withdrawal" /\ t.client_id \notin DOMAIN accounts
    THEN AccountNotFound(t.client_id) ELSE
    IF t.client_id \in DOMAIN accounts /\ accounts[t.client_id].locked
    THEN AccountLocked(t.client_id) ELSE
    IF t.tx_type = "Withdrawal" /\ accounts[t.client_id].available < t.amount[1]
    THEN BalanceInsufficient(accounts[t.client_id].available, t.tx_type, t.tx_id, t.amount[1])
    ELSE Ok

\* The number of the checks of C26 that a deposit or withdrawal record t
\* fails, each taken alone.
C26_Failing(t) ==
    (IF t.tx_id \in DOMAIN transactions THEN 1 ELSE 0)
    + (IF t.amount = None THEN 1 ELSE 0)
    + (IF t.amount # None /\ t.amount[1] < 0 THEN 1 ELSE 0)
    + (IF t.tx_type = "Withdrawal" /\ t.client_id \notin DOMAIN accounts THEN 1 ELSE 0)
    + (IF t.client_id \in DOMAIN accounts /\ accounts[t.client_id].locked THEN 1 ELSE 0)
    + (IF /\ t.tx_type = "Withdrawal"
          /\ t.amount # None
          /\ t.client_id \in DOMAIN accounts
          /\ accounts[t.client_id].available < t.amount[1]
       THEN 1 ELSE 0)

\* C26: what a deposit or withdrawal returns is the error of the first check
\* it fails in the order duplicate id, amount present, amount non-negative,
\* account exists (withdrawal only), account unlocked, available >= amount
\* (withdrawal only), however many of them it fails, and Ok if it fails none.
C26_DepositWithdrawalCheckOrder ==
    \A t \in Records :
        t.tx_type \in {"Deposit", "Withdrawal"}
        => Handle(t).res = C26_FirstFailing(t)

\* A locked account with available below 50: a withdrawal of 50 under a used
\* id fails three checks (duplicate, lock, balance) and returns
\* DuplicateTransaction, as does one without amount (duplicate, amount, lock);
\* under a fresh id it fails two (lock, balance) and returns AccountLocked.
C26_Witness ==
    \E c \in DOMAIN accounts, id \in DOMAIN transactions, fresh \in TxIds :
        /\ fresh \notin DOMAIN transactions
        /\ accounts[c].locked
        /\ accounts[c].available < 50
        /\ C26_Failing(Transaction("Withdrawal", c, id, None)) = 3
        /\ C26_Failing(Transaction("Withdrawal", c, id, Some(50))) = 3
        /\ C26_Failing(Transaction("Withdrawal", c, fresh, Some(50))) = 2
        /\ Handle(Transaction("Withdrawal", c, id, None)).res = DuplicateTransaction(id)
        /\ Handle(Transaction("Withdrawal", c, id, Some(50))).res = DuplicateTransaction(id)
        /\ Handle(Transaction("Withdrawal", c, fresh, Some(50))).res = AccountLocked(c)

----------------------------------------------------------------------------
\* C27: what a dispute, resolve or chargeback returns is the error of the
\* first check it fails in the order: the id names a deposit of the table
\* (NotFound), the deposit is in the status the kind requires
\* (IncorrectState), the record's client is the deposit's (ClientIdMismatch),
\* the account is unlocked (AccountLocked), however many of them it fails; if
\* it fails none, it returns none of these four errors.
C27_DisputeResolveChargebackCheckOrder ==
    \A t \in Records :
        t.tx_type \in {"Dispute", "Resolve", "Chargeback"}
        => LET res == Handle(t).res IN
           IF t.tx_id \notin DOMAIN transactions
              \/ transactions[t.tx_id].inner.tx_type # "Deposit"
           THEN res = NotFound(t.tx_type, t.tx_id) ELSE
           LET stored == transactions[t.tx_id] IN
           IF stored.status # C17_RequiredStatus(t.tx_type)
           THEN res = IncorrectState(t.tx_type, stored.status, t.tx_id) ELSE
           IF stored.inner.client_id # t.client_id
           THEN res = ClientIdMismatch(stored.inner.client_id, t.client_id) ELSE
           IF accounts[t.client_id].locked
           THEN res = AccountLocked(t.client_id)
           ELSE res.kind \notin {"NotFound", "IncorrectState", "ClientIdMismatch",
                                 "AccountLocked"}

\* A Valid deposit on a locked account: a resolve of it by another client
\* fails the status, the client and the lock check and returns IncorrectState,
\* a dispute of it by another client returns ClientIdMismatch, and the
\* owner's dispute returns AccountLocked.
C27_Witness ==
    \E id \in DOMAIN transactions, c \in ClientIds :
        LET owner == transactions[id].inner.client_id IN
        /\ c # owner
        /\ transactions[id].inner.tx_type = "Deposit"
        /\ transactions[id].status = "Valid"
        /\ accounts[owner].locked
        /\ Handle(Transaction("Resolve", c, id, None)).res
               = IncorrectState("Resolve", "Valid", id)
        /\ Handle(Transaction("Dispute", c, id, None)).res = ClientIdMismatch(owner, c)
        /\ Handle(Transaction("Dispute", owner, id, None)).res = AccountLocked(owner)

----------------------------------------------------------------------------
\* C28 as stated: every deposit or withdrawal with an amount < 0 returns
\* MustBePositive and changes nothing; a deposit of 0 with a fresh id for a
\* client without account is accepted and creates the account with available,
\* held and total 0.
C28_NegativeAlwaysMustBePositive ==
    \A t \in Records :
        (t.tx_type \in {"Deposit", "Withdrawal"} /\ t.amount # None)
        => LET out == Handle(t) IN
           /\ t.amount[1] < 0
              => /\ out.res = MustBePositive(t.tx_type, t.tx_id, t.amount[1])
                 /\ out.accounts = accounts
                 /\ out.transactions = transactions
           /\ (/\ t.tx_type = "Deposit"
               /\ t.amount[1] = 0
               /\ t.tx_id \notin DOMAIN transactions
               /\ t.client_id \notin DOMAIN accounts)
              => /\ IsOk(out.res)
                 /\ C10_Balances(out.accounts[t.client_id], 0, 0, 0)

\* C28 (amended): a deposit or withdrawal with an amount < 0 is rejected and
\* changes nothing, so that a rejected first deposit creates no account; the
\* error is MustBePositive when the transaction id is not yet in the table and
\* DuplicateTransaction when it is.  An amount of 0 passes the positivity
\* check: with a fresh id it never returns MustBePositive, and a deposit of 0
\* with a fresh id for a client without account is accepted and creates the
\* account with available, held and total 0.
C28_NegativeRejectedZeroAccepted ==
    \A t \in Records :
        (t.tx_type \in {"Deposit", "Withdrawal"} /\ t.amount # None)
        => LET out == Handle(t) IN
           /\ t.amount[1] < 0
              => /\ out.res = IF t.tx_id \in DOMAIN transactions
                              THEN DuplicateTransaction(t.tx_id)
                              ELSE MustBePositive(t.tx_type, t.tx_id, t.amount[1])
                 /\ out.accounts = accounts
                 /\ out.transactions = transactions
           /\ t.amount[1] = 0 => out.res.kind # "MustBePositive"
           /\ (/\ t.tx_type = "Deposit"
               /\ t.amount[1] = 0
               /\ t.tx_id \notin DOMAIN transactions
               /\ t.client_id \notin DOMAIN accounts)
              => /\ IsOk(out.res)
                 /\ C10_Balances(out.accounts[t.client_id], 0, 0, 0)
                 /\ ~out.accounts[t.client_id].locked

\* A client without account and a fresh id, while another client has an
\* account: the deposit of -50 returns MustBePositive and creates no account,
\* the deposit of 0 is accepted.
C28_Witness ==
    \E c \in ClientIds, id \in TxIds :
        /\ c \notin DOMAIN accounts
        /\ id \notin DOMAIN transactions
        /\ DOMAIN accounts # {}
        /\ LET out == Handle(Transaction("Deposit", c, id, Some(-50))) IN
           /\ out.res = MustBePositive("Deposit", id, -50)
           /\ c \notin DOMAIN out.accounts
        /\ \E w \in DOMAIN accounts :
               Handle(Transaction("Withdrawal", w, id, Some(-50))).res
                   = MustBePositive("Withdrawal", id, -50)
        /\ IsOk(Handle(Transaction("Deposit", c, id, Some(0))).res)

----------------------------------------------------------------------------
\* C29 as stated: every deposit or withdrawal record without amount returns
\* MissingAmount and leaves accounts and transactions as they are.
C29_NoAmountAlwaysMissingAmount ==
    \A t \in Records :
        (t.tx_type \in {"Deposit", "Withdrawal"} /\ t.amount = None)
        => LET out == Handle(t) IN
           /\ out.res = MissingAmount(t.tx_type, t.tx_id)
           /\ out.accounts = accounts
           /\ out.transactions = transactions

\* C29 (amended): a deposit or withdrawal record without amount is rejected,
\* the balances are as before, no account is created and no transaction is
\* inserted; the error is MissingAmount when the transaction id is not yet in
\* the table and DuplicateTransaction when it is.
C29_NoAmountRejected ==
    \A t \in Records :
        (t.tx_type \in {"Deposit", "Withdrawal"} /\ t.amount = None)
        => LET out == Handle(t) IN
           /\ out.res = IF t.tx_id \in DOMAIN transactions
                        THEN DuplicateTransaction(t.tx_id)
                        ELSE MissingAmount(t.tx_type, t.tx_id)
           /\ DOMAIN out.accounts = DOMAIN accounts
           /\ DOMAIN out.transactions = DOMAIN transactions
           /\ out.accounts = accounts
           /\ out.transactions = transactions

\* One client has an account with a positive balance and the other has none:
\* under a fresh id the deposit without amount for the other and the
\* withdrawal without amount for the first return MissingAmount.
C29_Witness ==
    \E c \in ClientIds, w \in DOMAIN accounts, id \in TxIds :
        /\ c \notin DOMAIN accounts
        /\ id \notin DOMAIN transactions
        /\ accounts[w].available > 0
        /\ LET out == Handle(Transaction("Deposit", c, id, None)) IN
           /\ out.res = MissingAmount("Deposit", id)
           /\ c \notin DOMAIN out.accounts
        /\ Handle(Transaction("Withdrawal", w, id, None)).res = MissingAmount("Withdrawal", id)

----------------------------------------------------------------------------
\* The state after the first n items of the stream, all of them records, each
\* handled once, in order, by the handler of its kind, from the empty state.
RECURSIVE C30_Fold(_, _)
C30_Fold(items, n) ==
    IF n = 0 THEN Return(<<>>, <<>>, Ok) ELSE
    LET before == C30_Fold(items, n - 1) IN
    Dispatch(items[n].tx, before.accounts, before.transactions)

\* The stream over the file yields no error.
C30_NoStreamError ==
    \A k \in DOMAIN parse_csv(input) : parse_csv(input)[k].kind = "Ok"

\* run() has returned Ok(()) after all the records of the stream, and stdout
\* holds exactly one row for each account of the final table.
C30_Reported ==
    /\ C30_NoStreamError
    /\ taken = Len(parse_csv(input))
    /\ Len(stdout) = Cardinality(DOMAIN accounts)
    /\ \A c \in DOMAIN accounts :
           Cardinality({i \in DOMAIN stdout : stdout[i] = Row(accounts[c])}) = 1
    /\ \A i \in DOMAIN stdout : stdout[i].client_id \in DOMAIN accounts

\* A step that handles the next record and stays in the loop, or leaves the
\* loop for good without handling one.
C30_Progress ==
    \/ pc' = "loop" /\ taken' = taken + 1
    \/ pc' # "loop" /\ taken' = taken

\* C30: at every point of a run on a file the accounts and transactions are
\* what handling the records taken so far, each once and in stream order,
\* yields.  The run terminates: while it is in the loop it can take a step,
\* it has handled no more records than the stream holds, and every step it
\* takes either handles the next record or leaves the loop for good.
\* When the stream yields no error the run does not fail, and when it has
\* returned Ok(()) every record of the stream was handled and exactly one row
\* per account of the final table was printed.
C30_RunTerminatesAndReports ==
    /\ [](LET handled == C30_Fold(parse_csv(input), taken) IN
          /\ accounts = handled.accounts
          /\ transactions = handled.transactions)
    /\ [](taken <= Len(parse_csv(input)))
    /\ [](pc = "loop" => ENABLED NextFile)
    /\ [][C30_Progress]_vars
    /\ [](C30_NoStreamError => pc # "failed")
    /\ [](pc = "done" => C30_Reported)

\* A file of a first record and two deposits of two clients at the end of its
\* run: both records handled, in stream order, two accounts, two rows.
C30_Witness ==
    /\ pc = "done"
    /\ Len(input) = 3
    /\ parse_csv(input) = <<StreamOk(Transaction("Deposit", 2, 2, Some(50))),
                            StreamOk(Transaction("Deposit", 1, 1, Some(100)))>>
    /\ taken = 2
    /\ DOMAIN transactions = {1, 2}
    /\ DOMAIN accounts = {1, 2}
    /\ Len(stdout) = 2
    /\ stdout[1].client_id # stdout[2].client_id

----------------------------------------------------------------------------
\* The deposits of client c in the table that have the status.
C31_DepositsIn(c, status) ==
    {id \in DOMAIN transactions :
        /\ transactions[id].inner.tx_type = "Deposit"
        /\ transactions[id].inner.client_id = c
        /\ transactions[id].status = status}

\* C31: in every reachable state, for each account, held equals the sum of
\* the amounts of that client's deposits whose status is Disputed.
C31_HeldIsDisputedSum ==
    \A c \in DOMAIN accounts :
        accounts[c].held = C14_Sum(transactions, C31_DepositsIn(c, "Disputed"))

----------------------------------------------------------------------------
\* C32: in every reachable state, if a deposit has status Chargeback then the
\* account of that deposit's client is locked.
C32_ChargebackStatusImpliesLocked ==
    \A id \in DOMAIN transactions :
        (/\ transactions[id].inner.tx_type = "Deposit"
         /\ transactions[id].status = "Chargeback")
        => /\ transactions[id].inner.client_id \in DOMAIN accounts
           /\ accounts[transactions[id].inner.client_id].locked

----------------------------------------------------------------------------
\* C33: in every reachable state, each account's total equals the sum of the
\* amounts of that client's deposits whose status is Valid or Disputed minus
\* the sum of the amounts of that client's accepted withdrawals.
C33_TotalIsLiveDepositsLessWithdrawals ==
    \A c \in DOMAIN accounts :
        accounts[c].total =
            C14_Sum(transactions,
                    C31_DepositsIn(c, "Valid") \cup C31_DepositsIn(c, "Disputed"))
            - C14_Sum(transactions, C14_Accepted("Withdrawal", c))

----------------------------------------------------------------------------
\* C34: in every reachable state the held of an account is at least the
\* amount of each Disputed deposit of its client.  So a resolve never returns
\* BalanceInsufficient, and a chargeback returns BalanceInsufficient only
\* from the check of a negative available, on an account whose available is
\* negative, never from the check of held against the amount.
C34_HeldCoversDisputed ==
    /\ \A id \in DOMAIN transactions :
           (/\ transactions[id].inner.tx_type = "Deposit"
            /\ transactions[id].status = "Disputed")
           => /\ transactions[id].inner.client_id \in DOMAIN accounts
              /\ accounts[transactions[id].inner.client_id].held
                     >= transactions[id].inner.amount[1]
    /\ \A t \in Records :
           t.tx_type \in {"Resolve", "Chargeback"}
           => LET out == Handle(t) IN
              out.res.kind = "BalanceInsufficient"
              => /\ t.tx_type = "Chargeback"
                 /\ LET stored == transactions[t.tx_id]
                        account == accounts[stored.inner.client_id] IN
                    /\ account.available < 0
                    /\ out.res = ChargebackArrears(New(t), account, stored.inner.amount[1])
                    /\ check_sufficient_balance(New(t), account.held,
                                                stored.inner.amount[1]) = Ok

\* A Disputed deposit of 50 held on an account with available = -50: its
\* resolve is accepted and its chargeback is rejected by the check of a
\* negative available.
C34_Witness ==
    \E id \in DOMAIN transactions :
        LET c == transactions[id].inner.client_id IN
        /\ transactions[id].status = "Disputed"
        /\ transactions[id].inner.amount = Some(50)
        /\ accounts[c].held = 50
        /\ accounts[c].available = -50
        /\ IsOk(Handle(Transaction("Resolve", c, id, None)).res)
        /\ Handle(Transaction("Chargeback", c, id, None)).res
               = BalanceInsufficient(0, "Chargeback", id, 50)

----------------------------------------------------------------------------
\* C35: in every reachable state every account has held >= 0 and total >= 0.
\* Available may be negative, and the available of an account becomes
\* negative only by an accepted dispute of a deposit of its client: no other
\* record makes an available that was not negative negative, and no record
\* creates an account with a negative available.
C35_OnlyAvailableNegativeByDispute ==
    /\ \A c \in DOMAIN accounts :
           /\ accounts[c].held >= 0
           /\ accounts[c].total >= 0
    /\ \A id \in DOMAIN transactions : transactions[id].inner.amount[1] >= 0
    /\ \A t \in Records :
           LET out == Handle(t) IN
           \A c \in DOMAIN out.accounts :
               (/\ out.accounts[c].available < 0
                /\ c \in DOMAIN accounts => accounts[c].available >= 0)
               => /\ t.tx_type = "Dispute"
                  /\ IsOk(out.res)
                  /\ t.client_id = c
                  /\ c \in DOMAIN accounts

\* An account with available = 0 and a Valid deposit of 50: the dispute of the
\* deposit is accepted and makes available -50, with held 50 and total 0.
C35_Witness ==
    \E id \in DOMAIN transactions :
        LET c == transactions[id].inner.client_id
            out == Handle(Transaction("Dispute", c, id, None)) IN
        /\ transactions[id].inner.tx_type = "Deposit"
        /\ transactions[id].status = "Valid"
        /\ accounts[c].available = 0
        /\ IsOk(out.res)
        /\ C10_Balances(out.accounts[c], -50, 50, 0)

----------------------------------------------------------------------------
\* C36: in every reachable state every entry of the transaction table has an
\* amount and its client has an account.  So a dispute, a resolve or a
\* chargeback never returns AccountNotFound or MissingAmount.
C36_EntriesHaveAmountAndAccount ==
    /\ \A id \in DOMAIN transactions :
           /\ transactions[id].inner.amount # None
           /\ transactions[id].inner.client_id \in DOMAIN accounts
    /\ \A t \in Records :
           t.tx_type \in {"Dispute", "Resolve", "Chargeback"}
           => Handle(t).res.kind \notin {"AccountNotFound", "MissingAmount"}

\* A table with a deposit and a withdrawal, of clients that have accounts, in
\* which a dispute of the deposit gets past the account and the amount and is
\* accepted.
C36_Witness ==
    \E d \in DOMAIN transactions, w \in DOMAIN transactions :
        /\ transactions[d].inner.tx_type = "Deposit"
        /\ transactions[w].inner.tx_type = "Withdrawal"
        /\ transactions[d].inner.amount = Some(100)
        /\ transactions[d].inner.client_id \in DOMAIN accounts
        /\ IsOk(Handle(Transaction("Dispute", transactions[d].inner.client_id, d, None)).res)

----------------------------------------------------------------------------
\* C37: in every reachable state every entry of kind Withdrawal has status
\* Valid, and no record, accepted or rejected, leaves a withdrawal of the
\* table with another status.
C37_WithdrawalsStayValid ==
    /\ \A id \in DOMAIN transactions :
           transactions[id].inner.tx_type = "Withdrawal"
           => transactions[id].status = "Valid"
    /\ \A t \in Records :
           LET out == Handle(t) IN
           \A id \in DOMAIN out.transactions :
               out.transactions[id].inner.tx_type = "Withdrawal"
               => out.transactions[id].status = "Valid"

\* An accepted withdrawal in the table: a dispute, a resolve and a chargeback
\* of it by its own client are all rejected and leave it Valid.
C37_Witness ==
    \E id \in DOMAIN transactions :
        /\ transactions[id].inner.tx_type = "Withdrawal"
        /\ \A k \in {"Dispute", "Resolve", "Chargeback"} :
               LET out == Handle(Transaction(k, transactions[id].inner.client_id, id, None)) IN
               /\ ~IsOk(out.res)
               /\ out.transactions[id].status = "Valid"

----------------------------------------------------------------------------
\* C38 as stated: after any rejected deposit or withdrawal the record's
\* transaction id is absent from the table, a deposit or withdrawal with the
\* same id handled next is not rejected as DuplicateTransaction, and a dispute
\* of that id handled next returns NotFound.
C38_RejectedNeverReservesId ==
    \A t \in Records :
        t.tx_type \in {"Deposit", "Withdrawal"}
        => LET out == Handle(t) IN
           ~IsOk(out.res)
           => /\ t.tx_id \notin DOMAIN out.transactions
              /\ \A u \in Records :
                     (u.tx_id = t.tx_id /\ u.tx_type \in {"Deposit", "Withdrawal"})
                     => Dispatch(u, out.accounts, out.transactions).res.kind
                            # "DuplicateTransaction"
              /\ \A c \in ClientIds :
                     Dispatch(Transaction("Dispute", c, t.tx_id, None),
                              out.accounts, out.transactions).res
                         = NotFound("Dispute", t.tx_id)

\* C38: a deposit or withdrawal is rejected as DuplicateTransaction exactly
\* when its transaction id is in the table, and then the entry that holds the
\* id stays as it is.  A deposit or withdrawal rejected for any other reason
\* does not reserve its id: the id is absent from the table afterwards, a
\* deposit or withdrawal with the same id handled next is not rejected as
\* DuplicateTransaction, and a dispute of that id handled next returns
\* NotFound.
C38_RejectedFreshIdNotReserved ==
    \A t \in Records :
        t.tx_type \in {"Deposit", "Withdrawal"}
        => LET out == Handle(t) IN
           /\ out.res.kind = "DuplicateTransaction" <=> t.tx_id \in DOMAIN transactions
           /\ t.tx_id \in DOMAIN transactions
              => /\ out.res = DuplicateTransaction(t.tx_id)
                 /\ out.transactions = transactions
           /\ (~IsOk(out.res) /\ out.res.kind # "DuplicateTransaction")
              => /\ t.tx_id \notin DOMAIN out.transactions
                 /\ \A u \in Records :
                        (u.tx_id = t.tx_id /\ u.tx_type \in {"Deposit", "Withdrawal"})
                        => Dispatch(u, out.accounts, out.transactions).res.kind
                               # "DuplicateTransaction"
                 /\ \A c \in ClientIds :
                        Dispatch(Transaction("Dispute", c, t.tx_id, None),
                                 out.accounts, out.transactions).res
                            = NotFound("Dispute", t.tx_id)

\* An account with available = 50 and a free transaction id: a withdrawal of
\* 100 under that id is rejected with BalanceInsufficient and leaves the id
\* free, so that a withdrawal of 50 under the same id handled next is
\* accepted and a dispute of the id returns NotFound.
C38_Witness ==
    \E c \in DOMAIN accounts, id \in TxIds :
        /\ id \notin DOMAIN transactions
        /\ accounts[c].available = 50
        /\ LET out == Handle(Transaction("Withdrawal", c, id, Some(100))) IN
           /\ out.res = BalanceInsufficient(50, "Withdrawal", id, 100)
           /\ id \notin DOMAIN out.transactions
           /\ IsOk(Dispatch(Transaction("Withdrawal", c, id, Some(50)),
                            out.accounts, out.transactions).res)
           /\ Dispatch(Transaction("Dispute", c, id, None),
                       out.accounts, out.transactions).res = NotFound("Dispute", id)

====
